---- MODULE Spec2Model ----
(***************************************************************************)
(* Model of the Vimeo reporting scripts: the total-plays script            *)
(* (analytics_totalplays.py), the detailed-analytics script (analytics.py) *)
(* and the livestream fetcher (src/analytics/analytics.py).  One behaviour *)
(* is one run of one script, a call of fetch_vimeo_livestream_data, or a   *)
(* call of analytics.py's send_email; the provider (the Vimeo REST API),   *)
(* the file system and the SMTP server are the environment and answer      *)
(* every call nondeterministically.                                        *)
(***************************************************************************)
EXTENDS Integers, Sequences, FiniteSets, TLC

\* ------------------------------------------------------------------ bounds
MaxItems == 3     \* items in the folder listing held by the provider
MaxPage  == 3     \* most items the provider puts on one page
MaxStreams == 2   \* most videos the account's listing holds

\* requests after which the model stops following a fetch loop: a truthful
\* provider never needs more, as no page it serves is empty
MaxReq == MaxItems

Min(a, b) == IF a < b THEN a ELSE b

Take(s, k) == SubSeq(s, 1, k)
Drop(s, k) == SubSeq(s, k + 1, Len(s))

\* ------------------------------------------------------- created_time values
\* A created_time as it stands in the JSON body: an ISO-8601 text with wall
\* clock t and zone suffix tz, or a text that is no date, or no key at all.
IsoTime(t, tz) == [kind |-> "iso", t |-> t, tz |-> tz]
GarbageTime    == [kind |-> "garbage", t |-> 0, tz |-> ""]
MissingTime    == [kind |-> "missing", t |-> 0, tz |-> ""]

\* The cutoff has a wall-clock hour on either side.
Cutoffs == {2}

\* The created_time values of listing items: an hour before the cutoff, the
\* cutoff's own instant written with a +01:00 offset, an hour after it, and
\* no created_time at all.
CreatedTimeValues ==
    {IsoTime(1, "Z"), IsoTime(3, "+01:00"), IsoTime(3, "Z"), MissingTime}

\* hours east of UTC of a zone suffix
OffsetOf(tz) == IF tz = "+01:00" THEN 1 ELSE 0

\* datetime.fromisoformat(v['created_time'].replace('Z', '+00:00')):
\* a missing key raises KeyError, a text that is no date raises ValueError;
\* a text with no zone suffix parses to a naive datetime.  The instant of an
\* aware datetime is its wall clock less its offset.
ParseCreatedTime(ct) ==
    IF ct.kind = "missing" \/ ct.kind = "garbage"
    THEN [raised |-> TRUE, aware |-> FALSE, instant |-> 0]
    ELSE IF ct.tz = ""
         THEN [raised |-> FALSE, aware |-> FALSE, instant |-> ct.t]
         ELSE IF ct.tz = "Z"
              THEN [raised |-> FALSE, aware |-> TRUE, instant |-> ct.t]
              ELSE [raised |-> FALSE, aware |-> TRUE,
                    instant |-> ct.t - OffsetOf(ct.tz)]

\* Comparing the parsed datetime with the timezone-aware cutoff
\* (datetime.now(timezone.utc) - timedelta(days=7)): parsing may have raised,
\* and a naive datetime against an aware one raises TypeError.
CompareRaises(ct) ==
    LET p == ParseCreatedTime(ct) IN p.raised \/ ~p.aware

\* last_video_date < cutoff_date
OlderThan(ct, c) == ParseCreatedTime(ct).instant < c
\* NewerThan with the comparison made inclusive
NewerOrEqual(ct, c) == ParseCreatedTime(ct).instant >= c

\* datetime.fromisoformat(...) > one_week_ago
NewerThan(ct, c) == ParseCreatedTime(ct).instant > c

\* ------------------------------------------------------------ configuration
\* Which environment values are set (analytics_totalplays.py:15-22).
ConfigKeys ==
    {"client_id", "client_secret", "access_token",
     "sender", "password", "receivers"}

AllSet == [k \in ConfigKeys |-> TRUE]

\* every value set, or exactly one of them missing
Configs == {AllSet} \cup {[AllSet EXCEPT ![k] = FALSE] : k \in ConfigKeys}

VARIABLES
    script,         \* which script (or function) this run executes
    cfg,            \* the environment configuration read at import
    pc,             \* position of the main program
    listing,        \* provider: the folder's videos, newest first as served
    cutoff,         \* one_week_ago / cutoff_date
    feed,           \* provider: the part of the listing not yet served
    page,           \* the fetch loop's page counter
    videos,         \* get_videos_from_folder: videos collected so far
    requested,      \* page numbers requested so far, in order
    responses,      \* the responses to those requests, in order
    faithful,       \* every listing response so far was the provider's
                    \* true next page with a truthful 'next'
    analytics_data, \* get_video_analytics: records collected so far
    total_pages,    \* get_video_analytics: the loop's upper bound
    df,             \* the table built from analytics_data
    recent_videos,  \* the caller's filtered list
    idx,            \* position of the stats loop in recent_videos
    statsCalls,     \* calls of get_simple_video_stats so far: the video,
                    \* whether a body (not None) was returned and whether
                    \* the caller's `if stats_data:` accepted it
    report_data,    \* rows collected for the report
    reportFile,     \* rows written to the spreadsheet file, <<>> if none
    emailCalls,     \* number of send_email invocations
    sent,           \* messages handed to the SMTP server
    effects,        \* side effects in order: "get", "write", "smtp"
    log,            \* what the run printed, as message tags
    livestreams_data \* fetch_vimeo_livestream_data: entries collected so far

vars ==
    <<script, cfg, pc, listing, cutoff, feed, page, videos, requested,
      responses, faithful, statsCalls, analytics_data, total_pages, df,
      recent_videos, idx, report_data, reportFile, emailCalls, sent,
      effects, log, livestreams_data>>

NoTable == [columns |-> {}, rows |-> <<>>]

\* ------------------------------------------------------------------ provider
Video(i, ct) == [uri |-> i, created_time |-> ct]

\* folder listings: item i carries uri i and any created_time value
Listings ==
    UNION {[1..n -> CreatedTimeValues] : n \in 0..MaxItems}

ListingOf(cts) == [i \in 1..Len(cts) |-> Video(i, cts[i])]

\* A response: status and decoded body (data, paging.next, paging.pages), or
\* the call raised.
Response(st, data, nxt, hasPages, pages) ==
    [status |-> st, raises |-> FALSE, data |-> data, next |-> nxt,
     hasPages |-> hasPages, pages |-> pages]

Raised ==
    [status |-> 0, raises |-> TRUE, data |-> <<>>, next |-> FALSE,
     hasPages |-> FALSE, pages |-> 0]


\* What the provider may answer to a listing request.  It serves the next k
\* items of what it has left (none, when k = 0), says whether a 'next' link
\* is there, or gives no 'next' link but a page count 'pages' beyond the
\* current page, or answers with an error status, or the call raises.
ListingResponses ==
    {Response(200, Take(feed, k), n, FALSE, 0) :
        k \in 0..Min(MaxPage, Len(feed)), n \in BOOLEAN}
        \cup {Response(200, Take(feed, k), FALSE, TRUE, page + 1) :
                 k \in 1..Min(MaxPage, Len(feed))}
        \cup {Response(500, <<>>, FALSE, FALSE, 0), Raised}

\* The response is the true next page: status 200, the next items of the
\* feed, non-empty unless the folder is empty, 'next' set exactly when a
\* later page exists.
IsFaithful(r) ==
    /\ r.status = 200 /\ ~r.raises
    /\ Len(r.data) <= Len(feed)
    /\ r.data = Take(feed, Len(r.data))
    /\ (r.data = <<>> => listing = <<>>)
    /\ r.next = (Len(r.data) < Len(feed))

\* ------------------------------------------------- analytics_totalplays.py
\* initialize_vimeo_client: the presence check of the three credentials
HasCredentials(c) ==
    c["client_id"] /\ c["client_secret"] /\ c["access_token"]

\* ListStep with the cutoff test made before the page is added: the page
\* that straddles the cutoff is dropped.
ListStepDropsPage(vs, pg, r, c) ==
    IF r.raises
    THEN [videos |-> vs, page |-> pg, go |-> FALSE, msg |-> "exception"]
    ELSE IF r.status = 200
    THEN IF r.data = <<>>
         THEN [videos |-> vs, page |-> pg, go |-> FALSE, msg |-> ""]
         ELSE LET last == r.data[Len(r.data)].created_time
              IN  IF CompareRaises(last)
                  THEN [videos |-> vs, page |-> pg, go |-> FALSE,
                        msg |-> "exception"]
                  ELSE IF OlderThan(last, c)
                  THEN [videos |-> vs, page |-> pg, go |-> FALSE,
                        msg |-> "cutoff"]
                  ELSE IF r.next
                  THEN [videos |-> vs \o r.data, page |-> pg + 1,
                        go |-> TRUE, msg |-> ""]
                  ELSE [videos |-> vs \o r.data, page |-> pg, go |-> FALSE,
                        msg |-> ""]
    ELSE [videos |-> vs, page |-> pg, go |-> FALSE, msg |-> "status"]

\* ListStep without the early stop: only 'next' decides.
ListStepNoEarlyStop(vs, pg, r, c) ==
    IF r.raises
    THEN [videos |-> vs, page |-> pg, go |-> FALSE, msg |-> "exception"]
    ELSE IF r.status = 200
    THEN IF r.data = <<>>
         THEN [videos |-> vs, page |-> pg, go |-> FALSE, msg |-> ""]
         ELSE IF r.next
              THEN [videos |-> vs \o r.data, page |-> pg + 1, go |-> TRUE,
                    msg |-> ""]
              ELSE [videos |-> vs \o r.data, page |-> pg, go |-> FALSE,
                    msg |-> ""]
    ELSE [videos |-> vs, page |-> pg, go |-> FALSE, msg |-> "status"]

\* One iteration of the loop of get_videos_from_folder on response r.
\* go: the loop requests another page.
ListStep(vs, pg, r, c) ==
    IF r.raises
    THEN [videos |-> vs, page |-> pg, go |-> FALSE, msg |-> "exception"]
    ELSE IF r.status = 200
    THEN IF r.data = <<>>
         THEN [videos |-> vs, page |-> pg, go |-> FALSE, msg |-> ""]
         ELSE LET all  == vs \o r.data
                  last == r.data[Len(r.data)].created_time
              IN  IF CompareRaises(last)
                  THEN [videos |-> all, page |-> pg, go |-> FALSE,
                        msg |-> "exception"]
                  ELSE IF OlderThan(last, c)
                  THEN [videos |-> all, page |-> pg, go |-> FALSE,
                        msg |-> "cutoff"]
                  ELSE IF r.next
                  THEN [videos |-> all, page |-> pg + 1, go |-> TRUE,
                        msg |-> ""]
                  ELSE [videos |-> all, page |-> pg, go |-> FALSE,
                        msg |-> ""]
    ELSE [videos |-> vs, page |-> pg, go |-> FALSE, msg |-> "status"]

Say(msg) == IF msg = "" THEN log ELSE Append(log, msg)

\* the caller's filter (one list comprehension): any item whose created_time
\* cannot be parsed or compared raises out of the comprehension
FilterRaises(vs) ==
    \E i \in 1..Len(vs) : CompareRaises(vs[i].created_time)

IsRecent(v, c) == NewerThan(v.created_time, c)

KeepRecent(vs, c) == SelectSeq(vs, LAMBDA v : IsRecent(v, c))

\* ---- src/src/analytics/analytics.py: fetch_vimeo_livestream_data ----

\* the account's videos as /me/videos serves them: an item may lack 'uri'
\* (or carry one with an empty last segment) and may lack 'name'
LivestreamKinds == {"full", "no_uri", "no_name"}

Livestream(i, kind) ==
    [uri |-> i, hasUri |-> kind # "no_uri", hasName |-> kind # "no_name"]

LivestreamOf(ks) == [i \in 1..Len(ks) |-> Livestream(i, ks[i])]

Livestreams ==
    {LivestreamOf(ks) :
        ks \in UNION {[1..n -> LivestreamKinds] : n \in 0..MaxStreams}}

Init ==
    /\ script \in {"totalplays", "analytics", "livestream", "send_email"}
    /\ pc = "start"
    /\ CASE script = "totalplays" ->
            /\ cfg \in Configs
            /\ \E cts \in Listings : listing = ListingOf(cts)
            /\ cutoff \in Cutoffs
         [] script = "analytics" ->
            /\ cfg \in {AllSet, [AllSet EXCEPT !["access_token"] = FALSE]}
            /\ listing = <<>>
            /\ cutoff = 0
         [] script = "livestream" ->
            /\ cfg \in {AllSet, [AllSet EXCEPT !["access_token"] = FALSE]}
            /\ listing \in Livestreams
            /\ cutoff = 0
         [] script = "send_email" ->
            /\ cfg \in Configs
            /\ listing = <<>>
            /\ cutoff = 0
    /\ livestreams_data = <<>>
    /\ analytics_data = <<>>
    /\ total_pages = 1
    /\ df = NoTable
    /\ feed = listing
    /\ page = 1
    /\ videos = <<>>
    /\ requested = <<>>
    /\ responses = <<>>
    /\ statsCalls = <<>>
    /\ faithful = TRUE
    /\ recent_videos = <<>>
    /\ idx = 1
    /\ report_data = <<>>
    /\ reportFile = <<>>
    /\ emailCalls = 0
    /\ sent = <<>>
    /\ effects = <<>>
    /\ log = <<>>

\* __main__ up to the call of get_videos_from_folder: the client is built
\* (the constructor may raise) or the run ends.
InitializeClient ==
    /\ pc = "start"
    /\ script = "totalplays"
    /\ \E ctorRaises \in BOOLEAN :
          IF HasCredentials(cfg) /\ ~ctorRaises
          THEN /\ pc' = "listing"
               /\ log' = log
          ELSE /\ pc' = "exit"
               /\ log' = Append(log, "no_client")
    /\ UNCHANGED <<script, cfg, listing, cutoff, livestreams_data,
                   feed, page, videos,
                   requested, responses, faithful, statsCalls,
                   analytics_data, total_pages, df, recent_videos, idx,
                   report_data, reportFile, emailCalls, sent, effects>>

\* get_videos_from_folder: one request and the handling of its response;
\* when the loop ends the function returns to the caller's filter.
FetchVideosPage ==
    /\ pc = "listing"
    /\ Len(requested) < MaxReq
    /\ \E r \in ListingResponses :
          LET s == ListStep(videos, page, r, cutoff) IN
          /\ requested' = Append(requested, page)
          /\ effects' = Append(effects, "get")
          /\ responses' = Append(responses, r)
          /\ faithful' = (faithful /\ IsFaithful(r))
          /\ feed' =
                IF r.status = 200 /\ ~r.raises
                THEN Drop(feed, Len(r.data)) ELSE feed
          /\ videos' = s.videos
          /\ page' = s.page
          /\ log' = Say(s.msg)
          /\ pc' = IF s.go THEN "listing" ELSE "filter"
    /\ UNCHANGED <<script, cfg, listing, cutoff, livestreams_data,
                   statsCalls, analytics_data,
                   total_pages, df, recent_videos, idx, report_data,
                   reportFile, emailCalls, sent>>

\* recent_videos = [v for v in videos_in_folder if ... > one_week_ago]
\* The record of the fetch call (requested, responses, feed) describes the
\* call that has just returned; it is dropped as __main__ moves on.
FilterRecent ==
    /\ pc = "filter"
    /\ IF FilterRaises(videos)
       THEN /\ pc' = "crashed"
            /\ UNCHANGED <<recent_videos, requested, responses, feed>>
       ELSE /\ recent_videos' = KeepRecent(videos, cutoff)
            /\ pc' = IF recent_videos' # <<>> THEN "stats" ELSE "report"
            /\ requested' = <<>>
            /\ responses' = <<>>
            /\ feed' = <<>>
    /\ UNCHANGED <<script, cfg, listing, cutoff, livestreams_data,
                   page, videos, faithful,
                   statsCalls, analytics_data, total_pages, df, idx,
                   report_data, reportFile, emailCalls, sent, effects, log>>

\* ---- get_simple_video_stats and the stats loop of __main__
NA == <<"N/A">>
NameOf(i) == <<"name", i>>
LinkOf(i) == <<"link", i>>

ReportColumns == {"Video Name", "Total Plays", "Upload Date", "Link"}

\* JSON bodies the single-video endpoint may return for video v: has names
\* the keys present among name, stats.plays and link.
StatsBody(v, has, ct) ==
    [has |-> has, name |-> NameOf(v.uri), plays |-> v.uri + 10,
     link |-> LinkOf(v.uri), created_time |-> ct]

StatsBodies(v) ==
    { StatsBody(v, {"name", "stats", "link"}, v.created_time),
      StatsBody(v, {}, IsoTime(1, "")),
      StatsBody(v, {"name", "stats", "link"}, MissingTime),
      StatsBody(v, {}, MissingTime) }

StatsResponses(v) ==
    {[status |-> 200, raises |-> FALSE, body |-> b] : b \in StatsBodies(v)}
        \cup {[status |-> 500, raises |-> FALSE,
               body |-> StatsBody(v, {}, MissingTime)],
              [status |-> 0, raises |-> TRUE,
               body |-> StatsBody(v, {}, MissingTime)]}

\* `if stats_data:` an empty JSON object is falsy
BodyTruthy(b) == b.has # {} \/ b.created_time.kind # "missing"

\* get_simple_video_stats returns response.json(), not None
StatsHasBody(r) == ~r.raises /\ r.status = 200

\* ... and the caller's `if stats_data:` accepts it
StatsReturned(r) == StatsHasBody(r) /\ BodyTruthy(r.body)

\* stats_data['created_time'] ... fromisoformat(...): raises when the key is
\* missing or the text is no date (no comparison is made here, so a naive
\* datetime is accepted)
RowRaises(b) == ParseCreatedTime(b.created_time).raised

\* strftime('%Y-%m-%d') of the parsed datetime: its own wall-clock date
UploadDate(ct) == ct.t

\* the dictionary appended to report_data
MakeRow(b) ==
    ("Video Name" :> (IF "name" \in b.has THEN b.name ELSE NA))
        @@ ("Total Plays" :> (IF "stats" \in b.has THEN b.plays ELSE 0))
        @@ ("Upload Date" :> UploadDate(b.created_time))
        @@ ("Link" :> (IF "link" \in b.has THEN b.link ELSE NA))

\* One iteration of `for video in recent_videos`.
FetchStats ==
    /\ pc = "stats"
    /\ idx <= Len(recent_videos)
    /\ \E r \in StatsResponses(recent_videos[idx]) :
          /\ effects' = Append(effects, "get")
          /\ statsCalls' =
                Append(statsCalls, [uri |-> recent_videos[idx].uri,
                                    returned |-> StatsHasBody(r),
                                    accepted |-> StatsReturned(r)])
          /\ IF StatsReturned(r)
             THEN IF RowRaises(r.body)
                  THEN /\ pc' = "crashed"
                       /\ UNCHANGED <<report_data, idx, log>>
                  ELSE /\ report_data' = Append(report_data, MakeRow(r.body))
                       /\ idx' = idx + 1
                       /\ pc' = IF idx' > Len(recent_videos)
                                THEN "report" ELSE "stats"
                       /\ log' = log
             ELSE /\ report_data' = report_data
                  /\ idx' = idx + 1
                  /\ pc' = IF idx' > Len(recent_videos)
                           THEN "report" ELSE "stats"
                  /\ log' = IF r.raises \/ r.status # 200
                            THEN Append(log, "stats_error") ELSE log
    /\ UNCHANGED <<script, cfg, listing, cutoff, livestreams_data,
                   feed, page, videos,
                   requested, responses, faithful, analytics_data,
                   total_pages, df, recent_videos, reportFile, emailCalls,
                   sent>>

\* ---- the report step of __main__ (`if report_data:` ... df.to_excel)
\* os.makedirs is outside the try; df.to_excel is inside it.
WriteOutcomes == {"written", "makedirs_raises", "to_excel_raises"}

\* AfterWrite with send_email moved out of the try: it runs whatever
\* df.to_excel did.
AfterWriteAlwaysEmails(w) ==
    IF w = "makedirs_raises" THEN "crashed" ELSE "email"

\* where __main__ goes after the write: send_email follows df.to_excel
\* inside the try
AfterWrite(w) ==
    CASE w = "written" -> "email"
      [] w = "makedirs_raises" -> "crashed"
      [] OTHER -> "exit"

WriteReport ==
    /\ pc = "report"
    /\ IF report_data = <<>>
       THEN /\ pc' = "exit"
            /\ log' = Append(log, "no_data")
            /\ UNCHANGED <<reportFile, effects>>
       ELSE \E w \in WriteOutcomes :
               /\ pc' = AfterWrite(w)
               /\ reportFile' = IF w = "written" THEN report_data
                                ELSE reportFile
               /\ effects' = IF w = "written" THEN Append(effects, "write")
                             ELSE effects
               /\ log' = IF w = "to_excel_raises"
                         THEN Append(log, "report_error") ELSE log
    /\ UNCHANGED <<script, cfg, listing, cutoff, livestreams_data,
                   feed, page, videos,
                   requested, responses, faithful, statsCalls,
                   analytics_data, total_pages, df, recent_videos, idx,
                   report_data, emailCalls, sent>>

\* ---- send_email
\* The SMTP session: connect, starttls, login, sendmail.  login raises when
\* the account or the password is None; sendmail raises when the recipient
\* list is [''] (RECEIVER_EMAILS unset).
SmtpOutcomes(c) ==
    {"connect_failed", "login_failed"}
        \cup (IF c["sender"] /\ c["password"]
              THEN {"send_failed"} ELSE {})
        \cup (IF c["sender"] /\ c["password"] /\ c["receivers"]
              THEN {"sent"} ELSE {})

SendEmail ==
    /\ pc = "email"
    /\ \E attached \in BOOLEAN, o \in SmtpOutcomes(cfg) :
          /\ emailCalls' = emailCalls + 1
          /\ effects' = Append(effects, "smtp")
          /\ sent' = IF o = "sent"
                     THEN Append(sent, [attached |-> attached]) ELSE sent
          /\ log' = (IF attached THEN log ELSE Append(log, "attach_error"))
                       \o (IF o = "sent" THEN <<"email_sent">>
                           ELSE <<"email_error">>)
    /\ pc' = "exit"
    /\ UNCHANGED <<script, cfg, listing, cutoff, livestreams_data,
                   feed, page, videos,
                   requested, responses, faithful, statsCalls,
                   analytics_data, total_pages, df, recent_videos, idx,
                   report_data, reportFile>>

\* ------------------------------------------------------------ analytics.py
DIMENSIONS == {"date", "video_id", "country", "device_type"}
METRICS ==
    {"plays", "finishes", "total_watch_time", "impressions", "unique_viewers"}

\* A record of the metrics endpoint: row n of page p, carrying the keys given.
Record(p, n, keys) == [page |-> p, n |-> n, keys |-> keys]

\* record n of a page carries every column when n is odd, two of them when
\* n is even
KeysOf(n) == IF n % 2 = 1 THEN DIMENSIONS \cup METRICS ELSE {"date", "plays"}

MetricsPage(p, k) == [n \in 1..k |-> Record(p, n, KeysOf(n))]

\* The 'pages' a response to the request for page p may carry: this is the
\* only page, this is the last page, one more follows, two more follow.
PagesValues(p) == {1, p, p + 1, p + 2}

\* What the provider may answer to the request for page p of the metrics:
\* up to MaxPage records with 'pages' set, or with no 'pages' and with or
\* without a 'next' link, or an error status, or the call raises.
MetricsResponses(p) ==
    {Response(200, MetricsPage(p, k), FALSE, TRUE, tp) :
        k \in 0..MaxPage, tp \in PagesValues(p)}
        \cup {Response(200, MetricsPage(p, k), n, FALSE, 0) :
                 k \in 0..MaxPage, n \in BOOLEAN}
        \cup {Response(403, <<>>, FALSE, FALSE, 0),
              Response(500, <<>>, FALSE, FALSE, 0), Raised}

\* AnalyticsStep that goes on to the next page after a failed fetch or an
\* empty page while total_pages says there are more.
AnalyticsStepSkipsPage(data, pg, tp, r) ==
    IF ~r.raises /\ r.status = 200 /\ r.data # <<>>
    THEN [data |-> data \o r.data, page |-> pg + 1,
          total_pages |-> IF r.hasPages THEN r.pages ELSE pg,
          go |-> TRUE, msg |-> "fetched"]
    ELSE [data |-> data, page |-> pg + 1,
          total_pages |-> IF ~r.raises /\ r.hasPages THEN r.pages ELSE tp,
          go |-> TRUE, msg |-> "skipped"]

\* AnalyticsStep that never reads paging.pages: total_pages stays what it
\* was.
AnalyticsStepKeepsTotal(data, pg, tp, r) ==
    IF ~r.raises /\ r.status = 200 /\ r.data # <<>>
    THEN [data |-> data \o r.data, page |-> pg + 1, total_pages |-> tp,
          go |-> TRUE, msg |-> "fetched"]
    ELSE [data |-> data, page |-> pg, total_pages |-> tp, go |-> FALSE,
          msg |-> IF r.raises THEN "exception"
                  ELSE IF r.status = 200 THEN "no_data_page"
                  ELSE IF r.status = 403 THEN "access_denied"
                  ELSE "status"]

\* One iteration of `while page <= total_pages` of get_video_analytics on
\* response r.  go: the loop ran to the end of the iteration (no break).
AnalyticsStep(data, pg, tp, r) ==
    IF r.raises
    THEN [data |-> data, page |-> pg, total_pages |-> tp, go |-> FALSE,
          msg |-> "exception"]
    ELSE IF r.status = 200
    THEN IF r.data # <<>>
         THEN [data |-> data \o r.data, page |-> pg + 1,
               total_pages |-> IF r.hasPages THEN r.pages ELSE pg,
               go |-> TRUE, msg |-> "fetched"]
         ELSE [data |-> data, page |-> pg, total_pages |-> tp, go |-> FALSE,
               msg |-> "no_data_page"]
    ELSE IF r.status = 403
    THEN [data |-> data, page |-> pg, total_pages |-> tp, go |-> FALSE,
          msg |-> "access_denied"]
    ELSE [data |-> data, page |-> pg, total_pages |-> tp, go |-> FALSE,
          msg |-> "status"]

\* pd.DataFrame(records): the columns are the union of the records' keys, a
\* key a record lacks is NaN in its row.
DataFrame(records) ==
    LET cols == UNION {records[i].keys : i \in 1..Len(records)} IN
    [columns |-> cols,
     rows |-> [i \in 1..Len(records) |->
                 [c \in cols |-> IF c \in records[i].keys
                                 THEN "value" ELSE "NaN"]]]

\* for col in DIMENSIONS + METRICS: if col not in df.columns: df[col] = None
FillColumns(t) ==
    LET cols == t.columns \cup DIMENSIONS \cup METRICS IN
    [columns |-> cols,
     rows |-> [i \in 1..Len(t.rows) |->
                 [c \in cols |-> IF c \in t.columns
                                 THEN t.rows[i][c] ELSE "None"]]]

\* df['date'] = pd.to_datetime(df['date'], errors='coerce')
CoerceDates(t) ==
    IF "date" \in t.columns
    THEN [t EXCEPT !.rows =
            [i \in 1..Len(t.rows) |->
                [t.rows[i] EXCEPT !["date"] =
                    IF @ = "value" THEN "datetime" ELSE "NaT"]]]
    ELSE t

\* __main__ of analytics.py up to get_video_analytics.  The definition of
\* initialize_vimeo_client in force is the later one, which builds the
\* client without a presence check.
InitializeAnalyticsClient ==
    /\ pc = "start"
    /\ script = "analytics"
    /\ \E ctorRaises \in BOOLEAN :
          IF ctorRaises
          THEN /\ pc' = "exit"
               /\ log' = Append(log, "no_client")
          ELSE /\ pc' = "metrics"
               /\ log' = log
    /\ UNCHANGED <<script, cfg, listing, cutoff, livestreams_data,
                   feed, page, videos,
                   requested, responses, faithful, statsCalls,
                   analytics_data, total_pages, df, recent_videos, idx,
                   report_data, reportFile, emailCalls, sent, effects>>

\* get_video_analytics: one request and the handling of its response; when
\* the loop ends the function returns to __main__.
FetchAnalyticsPage ==
    /\ pc = "metrics"
    /\ page <= total_pages
    /\ Len(requested) < MaxReq
    /\ \E r \in MetricsResponses(page) :
          LET s == AnalyticsStep(analytics_data, page, total_pages, r) IN
          /\ requested' = Append(requested, page)
          /\ effects' = Append(effects, "get")
          /\ responses' = Append(responses, r)
          /\ analytics_data' = s.data
          /\ page' = s.page
          /\ total_pages' = s.total_pages
          /\ log' = Say(s.msg)
          /\ pc' = IF s.go /\ s.page <= s.total_pages
                   THEN "metrics" ELSE "table"
    /\ UNCHANGED <<script, cfg, listing, cutoff, livestreams_data,
                   feed, videos, faithful,
                   statsCalls, df, recent_videos, idx, report_data,
                   reportFile, emailCalls, sent>>

\* __main__ of analytics.py after the fetch: the table is built and filled;
\* the next statement, os.makedirs(output_dir, ...), reads output_dir before
\* it is assigned and raises NameError outside any try.
BuildTable ==
    /\ pc = "table"
    /\ IF analytics_data # <<>>
       THEN /\ df' = CoerceDates(FillColumns(DataFrame(analytics_data)))
            /\ pc' = "crashed"
            /\ log' = Append(log, "collected")
       ELSE /\ df' = df
            /\ pc' = "exit"
            /\ log' = Append(log, "no_analytics_data")
    /\ UNCHANGED <<script, cfg, listing, cutoff, livestreams_data,
                   feed, page, videos,
                   requested, responses, faithful, statsCalls,
                   analytics_data, total_pages, recent_videos, idx,
                   report_data, reportFile, emailCalls, sent, effects>>

\* the title stored for a listed video: video.get("name", "Untitled Video")
TitleOf(v) == IF v.hasName THEN NameOf(v.uri) ELSE <<"Untitled Video">>

\* one point of an analytics body: concurrent_viewers at top level ("flat"),
\* inside 'metrics' ("nested"), or in neither place ("other")
Point(k, shape) == [time |-> k, shape |-> shape, concurrent_viewers |-> 10 * k]

\* JSON bodies of the per-video analytics endpoint: 'data' absent (or not a
\* list), an empty list, or a list of points
ViewerBodies ==
    { [hasData |-> FALSE, data |-> <<>>],
      [hasData |-> TRUE,  data |-> <<>>],
      [hasData |-> TRUE,  data |-> <<Point(1, "nested"), Point(2, "other"),
                                     Point(3, "flat")>>] }

\* what requests.get followed by raise_for_status yields: a decoded body,
\* HTTPError (4xx/5xx) or ConnectionError
Fetched(b) == [outcome |-> "ok", body |-> b]
FetchError(e) == [outcome |-> e, body |-> [hasData |-> FALSE, data |-> <<>>]]
FetchErrors == {"http_error", "connection_error"}
ViewerResponses ==
    {Fetched(b) : b \in ViewerBodies} \cup {FetchError(e) : e \in FetchErrors}

\* the parsing of one analytics body into viewer_data_points
RECURSIVE ViewerDataPoints(_)
ViewerDataPoints(points) ==
    IF points = <<>> THEN <<>>
    ELSE LET pt == Head(points)
             rest == ViewerDataPoints(Tail(points))
         IN IF pt.shape \in {"flat", "nested"}
            THEN <<[timestamp |-> pt.time,
                    concurrent_viewers |-> pt.concurrent_viewers]>> \o rest
            ELSE rest

ViewerData(b) == IF b.hasData THEN ViewerDataPoints(b.data) ELSE <<>>

LivestreamEntry(v, b) ==
    [id |-> v.uri, title |-> TitleOf(v), viewer_data |-> ViewerData(b)]

\* fetch_vimeo_livestream_data up to the loop: the token check, then the
\* listing request; an error is printed by the except clauses and the
\* function returns livestreams_data
FetchLivestreams ==
    /\ pc = "start"
    /\ script = "livestream"
    /\ IF ~cfg["access_token"]
       THEN /\ pc' = "exit"
            /\ log' = Append(log, "no_token")
            /\ UNCHANGED <<videos, effects>>
       ELSE /\ effects' = Append(effects, "get")
            /\ \E o \in {"ok"} \cup FetchErrors :
                 IF o = "ok"
                 THEN /\ videos' = listing
                      /\ pc' = IF listing = <<>> THEN "exit" ELSE "viewers"
                      /\ log' = Append(log, "found")
                 ELSE /\ videos' = videos
                      /\ pc' = "exit"
                      /\ log' = Append(log, o)
    /\ UNCHANGED <<script, cfg, listing, cutoff, livestreams_data,
                   feed,
                   page, requested, responses, faithful, statsCalls,
                   analytics_data, total_pages, df, recent_videos, idx,
                   report_data, reportFile, emailCalls, sent>>

\* one iteration of `for video in videos`: a video without an id is skipped,
\* otherwise its analytics are requested; an error leaves the loop through
\* the except clauses, after which `return livestreams_data` runs
FetchViewerData ==
    /\ pc = "viewers"
    /\ idx <= Len(videos)
    /\ LET video == videos[idx]
           last == idx = Len(videos)
       IN IF ~video.hasUri
          THEN /\ log' = Append(log, "skipping")
               /\ idx' = idx + 1
               /\ pc' = IF last THEN "exit" ELSE "viewers"
               /\ UNCHANGED <<livestreams_data, effects>>
          ELSE /\ effects' = Append(effects, "get")
               /\ \E r \in ViewerResponses :
                    IF r.outcome = "ok"
                    THEN /\ livestreams_data' =
                              Append(livestreams_data,
                                     LivestreamEntry(video, r.body))
                         /\ idx' = idx + 1
                         /\ pc' = IF last THEN "exit" ELSE "viewers"
                         /\ log' = IF r.body.hasData THEN log
                                   ELSE Append(log, "no_viewer_data")
                    ELSE /\ log' = Append(log, r.outcome)
                         /\ pc' = "exit"
                         /\ UNCHANGED <<livestreams_data, idx>>
    /\ UNCHANGED <<script, cfg, listing, cutoff, feed, page, videos,
                   requested, responses, faithful, statsCalls,
                   analytics_data, total_pages, df, recent_videos,
                   report_data, reportFile, emailCalls, sent>>

\* A call of analytics.py's send_email (the definition at line 247, the one
\* in force).  Its fourth parameter is named `sibject`; line 262 reads
\* `subject`, which is bound nowhere, so every call raises NameError there:
\* before the attachment is opened and before the SMTP session, and outside
\* both try blocks, so the exception reaches the caller.
AnalyticsSendEmail ==
    /\ pc = "start"
    /\ script = "send_email"
    /\ emailCalls' = emailCalls + 1
    /\ log' = Append(log, "NameError")
    /\ pc' = "raised"
    /\ UNCHANGED <<script, cfg, listing, cutoff, livestreams_data, feed,
                   page, videos, requested, responses, faithful, statsCalls,
                   analytics_data, total_pages, df, recent_videos, idx,
                   report_data, reportFile, sent, effects>>

Next ==
    \/ InitializeClient
    \/ FetchVideosPage
    \/ FilterRecent
    \/ FetchStats
    \/ WriteReport
    \/ SendEmail
    \/ InitializeAnalyticsClient
    \/ FetchAnalyticsPage
    \/ BuildTable
    \/ FetchLivestreams
    \/ FetchViewerData
    \/ AnalyticsSendEmail

Spec == Init /\ [][Next]_vars

\* ================================================================ properties
InLoop == pc \in {"listing", "metrics"}

\* the items the fetch loop of the running script has collected
Collected == IF script = "totalplays" THEN videos ELSE analytics_data

\* the data of the first n responses, concatenated in page order
RECURSIVE ConcatData(_, _)
ConcatData(rs, n) ==
    IF n = 0 THEN <<>> ELSE ConcatData(rs, n - 1) \o rs[n].data

InOrder == requested = [i \in 1..Len(requested) |-> i]

\* the caller's filter has run to its end
Filtered ==
    /\ script = "totalplays"
    /\ effects # <<>>
    /\ pc \in {"stats", "report", "email", "exit"}

\* every item parses to an aware datetime and no item is newer than the one
\* before it
SortedDescending(S) ==
    /\ \A i \in 1..Len(S) : ~CompareRaises(S[i].created_time)
    /\ \A i \in 1..(Len(S) - 1) :
          ParseCreatedTime(S[i].created_time).instant
              >= ParseCreatedTime(S[i + 1].created_time).instant

\* fetch every page, filter afterwards: the items of S newer than the cutoff
FilterAll(S, c) ==
    SelectSeq(S, LAMBDA v :
        ParseCreatedTime(v.created_time).instant > c)

\* C1: for a listing sorted newest first and served truthfully, however it
\* is split into pages, the fetch followed by the caller's filter gives
\* exactly the items newer than the cutoff, in the listing's order: what
\* fetching all pages and filtering afterwards gives.
C1_EarlyStopKeepsRecent ==
    (Filtered /\ faithful /\ SortedDescending(listing))
        => recent_videos = FilterAll(listing, cutoff)

\* the fetch stopped early on a page of two that straddles the cutoff,
\* leaving a page unrequested; the filter kept the newer of the two
C1_Witness ==
    /\ Filtered /\ faithful /\ SortedDescending(listing)
    /\ effects = <<"get">>
    /\ Len(listing) = 3
    /\ Len(videos) = 2
    /\ Len(recent_videos) = 1

\* the response is a non-empty page whose last item is older than the cutoff
CutoffPage(r) ==
    /\ ~r.raises /\ r.status = 200 /\ r.data # <<>>
    /\ ~CompareRaises(r.data[Len(r.data)].created_time)
    /\ ParseCreatedTime(r.data[Len(r.data)].created_time).instant < cutoff

\* C2: the listing pages are requested in the order 1, 2, 3, ..., and a page
\* whose last item is older than the cutoff is the last page requested.
C2_StopsAtCutoffPage ==
    script = "totalplays" =>
        /\ InOrder
        /\ \A i \in 1..Len(responses) :
              CutoffPage(responses[i])
                  => i = Len(requested) /\ pc # "listing"

\* three pages of one item, the second item the first older than the cutoff:
\* two requests, one item kept
C2_Witness ==
    /\ pc = "filter" /\ faithful /\ SortedDescending(listing)
    /\ Len(listing) = 3
    /\ requested = <<1, 2>>
    /\ CutoffPage(responses[2]) /\ responses[2].next
    /\ Len(feed) = 1
    /\ Len(KeepRecent(videos, cutoff)) = 1

\* the page fetch answered with a non-200 status or raised
Failed(r) == r.raises \/ r.status # 200

\* C4: a page fetch that fails is the last request of the loop, no page is
\* requested twice, and the fetcher's result is the data of the earlier
\* pages, in page order.
C4_FailureReturnsPartial ==
    /\ InOrder
    /\ \A i \in 1..Len(responses) :
          Failed(responses[i])
              => /\ i = Len(requested)
                 /\ ~InLoop
                 /\ Collected = ConcatData(responses, i - 1)

\* the second listing request raised after a first page of two videos
C4_Witness ==
    /\ script = "totalplays"
    /\ Len(responses) = 2
    /\ responses[2].raises
    /\ Len(videos) = 2
    /\ pc = "filter"

\* the response is a 200 with zero items
EmptyPage(r) == ~r.raises /\ r.status = 200 /\ r.data = <<>>

\* C6: a 200 response with zero items is the last request of the loop,
\* whatever 'next' and 'pages' it carries, and the result is the data of the
\* pages before it.
C6_EmptyPageEnds ==
    \A i \in 1..Len(responses) :
        EmptyPage(responses[i])
            => /\ i = Len(requested)
               /\ ~InLoop
               /\ Collected = ConcatData(responses, i - 1)

\* the metrics provider reported pages = 3 and returned no data on page 2
C6_Witness ==
    /\ script = "analytics"
    /\ Len(responses) = 2
    /\ responses[1].hasPages /\ responses[1].pages = 3
    /\ EmptyPage(responses[2]) /\ responses[2].hasPages
    /\ analytics_data = responses[1].data
    /\ analytics_data # <<>>
    /\ pc = "table"

Logged(tag) == \E i \in 1..Len(log) : log[i] = tag

\* C7: in the total-plays script send_email is called at most once, only
\* after the non-empty report_data has been written to the file; with no
\* recent video or no row there is no write and no email, and there is no
\* email after a failed write.
C7_EmailOnlyAfterReport ==
    script = "totalplays" =>
        /\ emailCalls <= 1
        /\ (emailCalls = 1 => reportFile # <<>> /\ reportFile = report_data)
        /\ \A i \in 1..Len(effects) :
              effects[i] = "smtp"
                  => \E j \in 1..(i - 1) : effects[j] = "write"
        /\ (report_data = <<>> => reportFile = <<>> /\ emailCalls = 0)
        /\ (Logged("report_error")
              => emailCalls = 0 /\ reportFile = <<>>
                    /\ \A i \in 1..Len(effects) : effects[i] # "smtp")

\* the report of two rows was written and mailed
C7_Witness ==
    /\ script = "totalplays"
    /\ pc = "exit"
    /\ emailCalls = 1
    /\ Len(reportFile) = 2
    /\ sent # <<>>

\* the number of requests at which the claimed page cap is looked at
PageCap == MaxReq

\* the response is a 200 with a non-empty page that claims more pages: a
\* 'next' link for the listing loop, 'pages' beyond page i for the metrics
\* loop
ClaimsMore(r, i) ==
    /\ ~r.raises /\ r.status = 200 /\ r.data # <<>>
    /\ IF script = "totalplays" THEN r.next ELSE r.hasPages /\ r.pages > i

\* C3: against a provider whose every response is a 200 with a non-empty
\* page and a claim of more pages, a fetch loop that has made PageCap
\* requests has stopped.
C3_StopsAtPageCap ==
    (/\ Len(requested) >= PageCap
     /\ \A i \in 1..Len(responses) : ClaimsMore(responses[i], i))
        => ~InLoop

\* what get_video_analytics returns to its caller when the answer to its
\* first request is r and ends the loop
AnalyticsReturn(r) == AnalyticsStep(<<>>, 1, 1, r).data

\* C5: when the first metrics response is a 403 the fetcher returns an empty
\* sequence, and what it returns differs from what it returns after another
\* error status and after an empty result.
C5_AuthErrorDistinguished ==
    (/\ script = "analytics"
     /\ Len(responses) = 1
     /\ ~responses[1].raises /\ responses[1].status = 403
     /\ pc = "table")
        => /\ analytics_data = <<>>
           /\ analytics_data
                 # AnalyticsReturn(Response(500, <<>>, FALSE, FALSE, 0))
           /\ analytics_data
                 # AnalyticsReturn(Response(200, <<>>, FALSE, FALSE, 0))

\* C8: with any configuration value missing the total-plays run makes no
\* provider request, opens no SMTP connection and writes no report file.
C8_MissingConfigStopsEarly ==
    (script = "totalplays" /\ \E k \in ConfigKeys : ~cfg[k])
        => effects = <<>> /\ reportFile = <<>>

\* the video's created_time is missing or is no date
BadTimestamp(v) == ParseCreatedTime(v.created_time).raised

\* C9: a listing page with an item whose created_time is missing or is no
\* date ends the pagination, and the run does not end in an unhandled
\* exception.
C9_BadTimestampIsFetchError ==
    script = "totalplays" =>
        \A i \in 1..Len(responses) :
            (\E j \in 1..Len(responses[i].data) :
                BadTimestamp(responses[i].data[j]))
                => /\ i = Len(requested)
                   /\ pc # "listing"
                   /\ pc # "crashed"

\* C10: in the total-plays script every stats body the caller accepted has
\* its row in report_data, each row with the four report columns; in the
\* analytics script every row of the table has every configured column.
C10_EveryRowComplete ==
    /\ script = "totalplays" =>
          /\ Len(report_data)
                = Cardinality({i \in 1..Len(statsCalls) :
                                  statsCalls[i].accepted})
          /\ \A i \in 1..Len(report_data) :
                DOMAIN report_data[i] = ReportColumns
    /\ \A i \in 1..Len(df.rows) :
          (DIMENSIONS \cup METRICS) \subseteq DOMAIN df.rows[i]

\* ---- fetch_vimeo_livestream_data ----

\* the function has returned (its return value is livestreams_data)
LivestreamReturned == script = "livestream" /\ pc = "exit"

FetchErrorLogged == \E e \in FetchErrors : Logged(e)

\* C11: fetch_vimeo_livestream_data returns an empty list whenever an error
\* occurred during the run: a missing token, an error on the listing request,
\* or an HTTP or connection error on the analytics request of any video, also
\* one that follows videos already processed.
C11_ErrorReturnsEmpty ==
    (LivestreamReturned /\ (FetchErrorLogged \/ Logged("no_token")))
        => livestreams_data = <<>>

\* ---- continuation rule of the two loops ----

\* the response to the request for page p says there are more pages
MoreIndicated(r, p) == r.next \/ (r.hasPages /\ p < r.pages)

\* the loop went on after its i-th request
ContinuedAfter(i) == i < Len(requested) \/ InLoop

\* a 200 response with items on which no other stop rule of the loop applies
\* (the listing loop's cutoff stop, or its last timestamp failing to parse)
PlainPage(r) ==
    /\ ~Failed(r) /\ r.data # <<>>
    /\ script = "totalplays" =>
          /\ ~CompareRaises(r.data[Len(r.data)].created_time)
          /\ ~CutoffPage(r)

\* C12: after a successful non-empty page, the listing loop and the metrics
\* loop go on to the next page exactly when the response has a 'next' link or
\* a 'pages' count above the current page; with 'pages' absent 'next' alone
\* decides, and with neither the page is the last.
C12_ContinuesWhenMoreIndicated ==
    \A i \in 1..Len(responses) :
        PlainPage(responses[i])
            => (ContinuedAfter(i) <=> MoreIndicated(responses[i], requested[i]))

\* the two ways the code departs from the rule: the metrics loop stops on a
\* page that has 'next' but no 'pages', the listing loop stops on a page
\* that has 'pages' above the current page but no 'next'
C12_MetricsIgnoresNext ==
    /\ script = "analytics" /\ pc = "table" /\ Len(responses) = 1
    /\ PlainPage(responses[1])
    /\ responses[1].next /\ ~responses[1].hasPages

C12_ListingIgnoresPages ==
    /\ script = "totalplays" /\ pc = "filter" /\ Len(responses) = 1
    /\ PlainPage(responses[1])
    /\ ~responses[1].next /\ responses[1].hasPages /\ responses[1].pages > 1

\* ---- get_video_analytics: the pages requested and the result ----

\* get_video_analytics has returned
MetricsReturned ==
    /\ script = "analytics"
    /\ requested # <<>>
    /\ pc \in {"table", "exit", "crashed"}

\* no request failed and no page was empty
CleanRun ==
    \A i \in 1..Len(responses) :
        ~Failed(responses[i]) /\ ~EmptyPage(responses[i])

LastResponse == responses[Len(responses)]

Straddles(r) ==
    /\ CutoffPage(r)
    /\ ~CompareRaises(r.data[1].created_time)
    /\ ParseCreatedTime(r.data[1].created_time).instant > cutoff

\* get_videos_from_folder has returned and its caller has not moved on
FetchReturned == script = "totalplays" /\ pc = "filter"

\* positions of the fetched videos whose instant is strictly after the cutoff
NewerPositions ==
    {i \in 1..Len(videos) :
        ParseCreatedTime(videos[i].created_time).instant > cutoff}

\* kept is the subsequence of videos at the positions P, in order
IsSubsequenceAt(kept, P) ==
    /\ Len(kept) = Cardinality(P)
    /\ \A i \in P : kept[Cardinality({j \in P : j <= i})] = videos[i]

StatsLoopLeft == script = "totalplays" /\ statsCalls # <<>> /\ pc # "stats"

\* the calls of get_simple_video_stats that returned a body (not None)
SucceededCalls == {i \in 1..Len(statsCalls) : statsCalls[i].returned}

\* C15: once the stats loop is over, get_simple_video_stats has been called
\* exactly once for every recent video, in order, whatever calls failed; and
\* report_data holds one row for every video whose fetch returned a body, in
\* the order of recent_videos.
C15_FailedFetchSkipsOneVideo ==
    StatsLoopLeft =>
        /\ Len(statsCalls) = Len(recent_videos)
        /\ \A i \in 1..Len(statsCalls) :
              statsCalls[i].uri = recent_videos[i].uri
        /\ Len(report_data) = Cardinality(SucceededCalls)
        /\ \A i \in SucceededCalls :
              LET k == Cardinality({j \in SucceededCalls : j <= i}) IN
              k <= Len(report_data)
                  => report_data[k]["Link"] \in {NA, LinkOf(statsCalls[i].uri)}

\* a failed fetch for the first of two recent videos, then a 200 body without
\* created_time for the second: the run ends in an unhandled KeyError
C15_CrashAfterFailedFetch ==
    /\ script = "totalplays" /\ pc = "crashed"
    /\ Len(recent_videos) = 2 /\ Len(statsCalls) = 2
    /\ ~statsCalls[1].returned /\ statsCalls[2].accepted
    /\ report_data = <<>>

\* a 200 response whose body is the empty object: the fetch returned it, the
\* caller's `if stats_data:` dropped it, and the loop ended with no row
C15_EmptyBodyGivesNoRow ==
    /\ StatsLoopLeft /\ pc # "crashed"
    /\ Len(statsCalls) = 1
    /\ statsCalls[1].returned /\ ~statsCalls[1].accepted
    /\ report_data = <<>>

\* ---- send_email ----

\* send_email has been called and the call is over
EmailCallOver == emailCalls > 0

SmtpAttempted == \E i \in 1..Len(effects) : effects[i] = "smtp"

\* what holds of a finished call in the total-plays script: the SMTP session
\* was attempted whether or not the attachment could be read, the call
\* returned normally whatever the session did, and a message sent after an
\* attachment error carries no attachment
SendEmailContract ==
    /\ SmtpAttempted
    /\ pc = "exit"
    /\ (Logged("attach_error") /\ Logged("email_sent"))
          => sent = <<[attached |-> FALSE]>>
    /\ Logged("email_sent") \/ Logged("email_error")

\* C16: in send_email, of either script, a failure to open or encode the
\* attachment does not prevent the SMTP session, the message then goes out
\* without the attachment, and no failure of the call reaches the caller: the
\* call returns normally whether the message was sent or not.
C16_AttachmentFailureStillSends == EmailCallOver => SendEmailContract

\* the same, of analytics_totalplays.py's send_email alone
C16_TotalPlaysSendEmail ==
    (EmailCallOver /\ script = "totalplays") => SendEmailContract

\* the total-plays send_email sent the message after an attachment error
C16_SentWithoutAttachment ==
    /\ script = "totalplays" /\ EmailCallOver
    /\ Logged("attach_error") /\ Logged("email_sent")
    /\ sent = <<[attached |-> FALSE]>>

====
